---------------------------- MODULE Spec2Model ----------------------------
(***************************************************************************)
(* DocSage: the retrieval pipeline of backend/rag_engine.py (RAGEngine)    *)
(* and the /ask handler of backend/app.py.                                 *)
(*                                                                         *)
(* Strings are sequences of one-character strings.  Python's 0-based,      *)
(* half-open indexing is kept: text[i:j] is Slice(text, i, j).             *)
(***************************************************************************)
EXTENDS Integers, Sequences, FiniteSets, TLC

VARIABLES
    ct,      \* the frame of a chunk_text call followed step by step
    rt,      \* the frame of the ranking part of a retrieve call
    ga,      \* the frame of the output handling of a generate_answer call
    store,   \* RAGEngine.store: the dict, as its entries in insertion order
    wk,      \* the frame of each request thread
    served   \* requests started so far

vars == <<ct, rt, ga, store, wk, served>>

-----------------------------------------------------------------------------
(* Bounds of the model *)

MaxText == 6        \* longest text handed to chunk_text
MaxWindow == 4      \* largest chunk_size / overlap tried
MaxChunks == 3      \* most chunks of a document handed to the ranking
MaxTopK == 4        \* largest top_k tried
MaxRaw == 4         \* most tokens of a generative output
MaxRequests == 3    \* requests served in one run

(* Program constants.  The source's sizes are scaled down so that texts     *)
(* longer than a window fit the bounds; their order 50 <= 200 < 1000 is     *)
(* kept (Neighbourhood <= DefaultOverlap < DefaultChunkSize).               *)
DefaultChunkSize == 4   \* chunk_size=1000
DefaultOverlap == 2     \* overlap=200
Neighbourhood == 2      \* the 50 of text.find('\n', end - 50, end + 50)
FallbackPrefixLen == 2  \* the 500 of raw_text[:500]
DefaultTopK == 5        \* top_k=5

-----------------------------------------------------------------------------
(* Values of frames and variables while nothing runs in them *)

NoReturn == [verbatim |-> FALSE, text |-> <<>>, value |-> [kind |-> "none", mode |-> "none"]]
NoResponse == [status |-> 0, body |-> [kind |-> "none", mode |-> "none"]]
NoDoc == [chunks |-> <<>>, embeddings |-> <<>>, full_text |-> <<>>]

ChunkIdle == [pc |-> "idle"]
RankIdle == [pc |-> "idle"]
AnswerIdle == [pc |-> "idle"]

\* A request thread between requests.  Besides the locals of the handler the
\* frame keeps what the request sent (supplied: the doc_id of its JSON, 0 if
\* none), the keys /ask saw in the store (keys_seen), the embedding calls made
\* (calls) and whether the generative model was called (generated).
IdleFrame ==
    [pc |-> "idle", op |-> "none", doc_id |-> 0, full_text |-> <<>>, chunks |-> <<>>,
     embeddings |-> <<>>, question |-> <<>>, supplied |-> 0, keys_seen |-> <<>>,
     doc_data |-> NoDoc, calls |-> <<>>, query_embedding |-> <<>>, results |-> <<>>,
     generated |-> FALSE, ret |-> NoReturn, response |-> NoResponse]

Threads == {1, 2}

ServerIdle == store = <<>> /\ wk = [w \in Threads |-> IdleFrame] /\ served = 0

-----------------------------------------------------------------------------
(* Python built-ins *)

Min(a, b) == IF a < b THEN a ELSE b
Max(a, b) == IF a > b THEN a ELSE b

Seqs(S, n) == UNION {[1..k -> S] : k \in 0..n}

\* How Python clamps a slice bound i against a sequence of length n.
PyIdx(i, n) == IF i < 0 THEN Max(i + n, 0) ELSE Min(i, n)

\* s[i:j]
Slice(s, i, j) ==
    LET lo == PyIdx(i, Len(s))
        hi == PyIdx(j, Len(s))
    IN  IF lo >= hi THEN <<>> ELSE SubSeq(s, lo + 1, hi)

\* s.find(c, i, j): lowest 0-based position of c inside s[i:j], or -1
Find(s, c, i, j) ==
    LET lo == PyIdx(i, Len(s))
        hi == PyIdx(j, Len(s))
        hits == {k \in lo..(hi - 1) : s[k + 1] = c}
    IN  IF hits = {} THEN -1 ELSE CHOOSE k \in hits : \A m \in hits : k <= m

Whitespace == {" ", "\n"}

\* s.strip() is empty
IsBlank(s) == \A k \in 1..Len(s) : s[k] \in Whitespace

-----------------------------------------------------------------------------
(* RAGEngine.chunk_text *)

Chars == {"a", " ", "\n"}

\* a newline search reaching one position further than the neighbourhood
ChunkEnd_WiderSearch(text, start, chunk_size) ==
    LET end == start + chunk_size
    IN  IF end < Len(text)
        THEN LET newline_pos == Find(text, "\n", end - Neighbourhood, end + Neighbourhood + 1)
             IN  IF newline_pos # -1 THEN newline_pos ELSE end
        ELSE end

\* lines 26-30: the tentative end, moved to a newline found near it
ChunkEnd(text, start, chunk_size) ==
    LET end == start + chunk_size
    IN  IF end < Len(text)
        THEN LET newline_pos == Find(text, "\n", end - Neighbourhood, end + Neighbourhood)
             IN  IF newline_pos # -1 THEN newline_pos ELSE end
        ELSE end

\* lines 32-34: the window is kept unless it is blank
ChunkAppend(chunks, text, start, end) ==
    LET chunk == Slice(text, start, end)
    IN  IF ~IsBlank(chunk) THEN Append(chunks, chunk) ELSE chunks

\* a stride that forgets the overlap
ChunkStride_NoOverlap(chunk_size, overlap) == chunk_size

\* line 35
ChunkStride(chunk_size, overlap) == chunk_size - overlap

\* the whole call, for callers that use its result (terminates when overlap < chunk_size)
RECURSIVE ChunkLoop(_, _, _, _, _)
ChunkLoop(text, chunk_size, overlap, start, chunks) ==
    IF start < Len(text)
    THEN ChunkLoop(text, chunk_size, overlap,
                   start + ChunkStride(chunk_size, overlap),
                   ChunkAppend(chunks, text, start, ChunkEnd(text, start, chunk_size)))
    ELSE chunks

chunk_text(text, chunk_size, overlap) == ChunkLoop(text, chunk_size, overlap, 0, <<>>)

\* The loop, one iteration per step.  spans records, for every chunk kept, the
\* positions text[lo:hi] it was cut from; iters counts iterations.  A loop that
\* never ends is followed for ChunkIterCap iterations.
ChunkIterCap == MaxText + 2

ChunkInit ==
    /\ rt = RankIdle
    /\ ga = AnswerIdle
    /\ ServerIdle
    /\ \E text \in Seqs(Chars, MaxText), chunk_size \in 1..MaxWindow, overlap \in 0..MaxWindow :
        ct = [text |-> text, chunk_size |-> chunk_size, overlap |-> overlap,
              start |-> 0, chunks |-> <<>>, spans |-> <<>>, iters |-> 0, pc |-> "call"]

\* lines 23-24
ChunkEnter ==
    /\ ct.pc = "call"
    /\ ct' = [ct EXCEPT !.chunks = <<>>, !.start = 0, !.pc = "loop"]
    /\ UNCHANGED <<rt, ga, store, wk, served>>

ChunkStep ==
    /\ ct.pc = "loop"
    /\ ct.start < Len(ct.text)
    /\ ct.iters < ChunkIterCap
    /\ LET end == ChunkEnd(ct.text, ct.start, ct.chunk_size)
           kept == ChunkAppend(ct.chunks, ct.text, ct.start, end)
       IN  ct' = [ct EXCEPT
                    !.chunks = kept,
                    !.spans = IF Len(kept) > Len(ct.chunks)
                              THEN Append(@, [lo |-> PyIdx(ct.start, Len(ct.text)),
                                              hi |-> PyIdx(end, Len(ct.text))])
                              ELSE @,
                    !.start = @ + ChunkStride(ct.chunk_size, ct.overlap),
                    !.iters = @ + 1]
    /\ UNCHANGED <<rt, ga, store, wk, served>>

ChunkReturn ==
    /\ ct.pc = "loop"
    /\ ~(ct.start < Len(ct.text))
    /\ ct' = [ct EXCEPT !.pc = "done"]
    /\ UNCHANGED <<rt, ga, store, wk, served>>

ChunkNext == ChunkEnter \/ ChunkStep \/ ChunkReturn

SpecChunk == ChunkInit /\ [][ChunkNext]_vars

-----------------------------------------------------------------------------
(* Claims about chunk_text, under SpecChunk *)

ValidStride == 0 <= ct.overlap /\ ct.overlap < ct.chunk_size

Covered(p) == \E i \in 1..Len(ct.spans) : ct.spans[i].lo <= p /\ p < ct.spans[i].hi

IsSubstring(chunk, text) ==
    \E lo \in 0..Len(text) : \E hi \in lo..Len(text) : chunk = Slice(text, lo, hi)

\* C3: a call with overlap >= chunk_size on a non-empty text is rejected as a
\* configuration error before any iteration of the loop runs, so it never runs
\* an iteration that leaves start where it was or moves it backwards.
C3_OverlapRejected ==
    (ct.overlap >= ct.chunk_size /\ Len(ct.text) > 0) => ct.iters = 0

\* C4 as claimed: for every non-empty text and 0 <= overlap < chunk_size the
\* result is non-empty and every character position lies inside a returned chunk.
C4_FullCoverage ==
    (ct.pc = "done" /\ ValidStride /\ Len(ct.text) > 0)
        => (/\ ct.chunks # <<>>
            /\ \A p \in 0..(Len(ct.text) - 1) : Covered(p))

\* C4 as amended: when the overlap is at least the newline neighbourhood
\* (Neighbourhood <= overlap < chunk_size, as with the defaults), every
\* non-whitespace character lies inside a returned chunk, and the result is
\* non-empty whenever the text has a non-whitespace character.
C4_NonBlankCoverage ==
    (ct.pc = "done" /\ ValidStride /\ ct.overlap >= Neighbourhood)
        => (/\ ~IsBlank(ct.text) => ct.chunks # <<>>
            /\ \A p \in 0..(Len(ct.text) - 1) :
                  ct.text[p + 1] \notin Whitespace => Covered(p))

\* a finished call where a cut was moved back to a newline, a blank window was
\* dropped and some whitespace position is left uncovered
C4_Witness ==
    /\ ct.pc = "done" /\ ValidStride /\ ct.overlap >= Neighbourhood
    /\ Len(ct.chunks) >= 2
    /\ Len(ct.chunks) < ct.iters
    /\ \E i \in 1..Len(ct.spans) :
          ct.spans[i].hi < ct.spans[i].lo + ct.chunk_size /\ ct.spans[i].hi < Len(ct.text)
    /\ \E p \in 0..(Len(ct.text) - 1) : ~Covered(p)

\* C5 as claimed: every chunk is a contiguous substring of the text, is not
\* blank, and is at most chunk_size long.
C5_ChunkWithinWindow ==
    \A i \in 1..Len(ct.chunks) :
        /\ IsSubstring(ct.chunks[i], ct.text)
        /\ ~IsBlank(ct.chunks[i])
        /\ Len(ct.chunks[i]) <= ct.chunk_size

\* C5 as amended: every chunk is a contiguous substring of the text (the one
\* at its recorded span), is not blank, and is shorter than chunk_size plus the
\* newline neighbourhood.
C5_ChunkWithinNeighbourhood ==
    /\ Len(ct.spans) = Len(ct.chunks)
    /\ \A i \in 1..Len(ct.chunks) :
        /\ IsSubstring(ct.chunks[i], ct.text)
        /\ ct.chunks[i] = Slice(ct.text, ct.spans[i].lo, ct.spans[i].hi)
        /\ ~IsBlank(ct.chunks[i])
        /\ Len(ct.chunks[i]) <= ct.chunk_size + Neighbourhood - 1

\* a finished call that kept a chunk longer than chunk_size, cut at a newline
\* found after the tentative end
C5_Witness ==
    /\ ct.pc = "done" /\ ValidStride
    /\ \E i \in 1..Len(ct.chunks) :
          /\ Len(ct.chunks[i]) > ct.chunk_size
          /\ ct.text[ct.spans[i].hi + 1] = "\n"

-----------------------------------------------------------------------------
(* RAGEngine.retrieve, lines 97-112: scoring and ranking *)

Dot(u, v) == IF Len(u) = 2 THEN u[1] * v[1] + u[2] * v[2] ELSE 0

\* sklearn's normalisation leaves an all-zero vector as it is (its norm counts as 1)
Norm2(u) == IF Dot(u, u) = 0 THEN 1 ELSE Dot(u, u)

\* cosine_similarity of q and d, kept exact as the fraction num/den of its
\* square: the components are never negative, so the order of the squares is
\* the order of the cosines.
Cosine(q, d) == [num |-> Dot(q, d) * Dot(q, d), den |-> Norm2(q) * Norm2(d)]

ScoreLess(a, b) == a.num * b.den < b.num * a.den
ScoreEq(a, b) == a.num * b.den = b.num * a.den

\* line 99: one score per document vector
Similarities(query_vec, doc_vecs) ==
    [i \in 1..Len(doc_vecs) |-> Cosine(query_vec, doc_vecs[i])]

\* line 101
ActualTopK(top_k, n) == Min(top_k, n)

\* np.argsort(similarities): a permutation of the 0-based indices in ascending
\* order of score.  The default sort is not stable, so every order of equal
\* scores is a possible outcome.
Argsort(similarities) ==
    LET n == Len(similarities)
    IN  {perm \in [1..n -> 0..(n - 1)] :
            /\ \A i, j \in 1..n : i # j => perm[i] # perm[j]
            /\ \A i, j \in 1..n :
                 i < j => ~ScoreLess(similarities[perm[j] + 1], similarities[perm[i] + 1])}

Reverse(s) == [i \in 1..Len(s) |-> s[Len(s) + 1 - i]]

\* the first k of the ascending order instead of the last k
TopIndices_LowestFirst(order, k) == Slice(order, 0, k)

\* line 102: [-actual_top_k:][::-1]
TopIndices(order, k) == Reverse(Slice(order, -k, Len(order)))

\* lines 104-112
Results(chunks, similarities, top_indices) ==
    [i \in 1..Len(top_indices) |->
        [text |-> chunks[top_indices[i] + 1],
         score |-> similarities[top_indices[i] + 1],
         chunk_id |-> top_indices[i]]]

\* every result list retrieve can return once the query is embedded (lines 81-82, 97-112)
Rank(chunks, doc_vecs, query_vec, top_k) ==
    IF Len(chunks) = 0
    THEN {<<>>}
    ELSE LET similarities == Similarities(query_vec, doc_vecs)
         IN  {Results(chunks, similarities,
                      TopIndices(order, ActualTopK(top_k, Len(chunks)))) :
                 order \in Argsort(similarities)}

Vecs == {<<0, 0>>, <<0, 1>>, <<1, 0>>, <<1, 1>>}

\* chunk number i of a stored document, as text
ChunkNo(i) == [k \in 1..i |-> "a"]

RankInit ==
    /\ ct = ChunkIdle
    /\ ga = AnswerIdle
    /\ ServerIdle
    /\ \E n \in 1..MaxChunks, top_k \in 1..MaxTopK :
       \E doc_vecs \in [1..n -> Vecs], query_vec \in Vecs :
          rt = [chunks |-> [i \in 1..n |-> ChunkNo(i)], doc_vecs |-> doc_vecs,
                query_vec |-> query_vec, top_k |-> top_k,
                similarities |-> <<>>, top_indices |-> <<>>, results |-> <<>>,
                pc |-> "score"]

\* lines 97-99
RankScore ==
    /\ rt.pc = "score"
    /\ rt' = [rt EXCEPT !.similarities = Similarities(rt.query_vec, rt.doc_vecs),
                        !.pc = "sort"]
    /\ UNCHANGED <<ct, ga, store, wk, served>>

\* lines 101-102
RankSort ==
    /\ rt.pc = "sort"
    /\ \E order \in Argsort(rt.similarities) :
          rt' = [rt EXCEPT
                   !.top_indices = TopIndices(order, ActualTopK(rt.top_k, Len(rt.chunks))),
                   !.pc = "collect"]
    /\ UNCHANGED <<ct, ga, store, wk, served>>

\* lines 104-112
RankCollect ==
    /\ rt.pc = "collect"
    /\ rt' = [rt EXCEPT !.results = Results(rt.chunks, rt.similarities, rt.top_indices),
                        !.pc = "done"]
    /\ UNCHANGED <<ct, ga, store, wk, served>>

RankNext == RankScore \/ RankSort \/ RankCollect

SpecRank == RankInit /\ [][RankNext]_vars

-----------------------------------------------------------------------------
(* Claims about retrieve's ranking, under SpecRank *)

Returned == {rt.results[i].chunk_id : i \in 1..Len(rt.results)}

\* C6: retrieve returns exactly min(top_k, n) results, with pairwise distinct
\* chunk indices, each carrying its own chunk's text and score, in order of
\* non-increasing score, and no chunk left out scores strictly higher than a
\* returned one; with top_k > n all n chunks are returned.
C6_TopKRanking ==
    rt.pc = "done" =>
        LET n == Len(rt.chunks)
            res == rt.results
        IN  /\ Len(res) = Min(rt.top_k, n)
            /\ \A i, j \in 1..Len(res) : i # j => res[i].chunk_id # res[j].chunk_id
            /\ \A i \in 1..Len(res) :
                 /\ res[i].chunk_id \in 0..(n - 1)
                 /\ res[i].text = rt.chunks[res[i].chunk_id + 1]
                 /\ res[i].score = Cosine(rt.query_vec, rt.doc_vecs[res[i].chunk_id + 1])
            /\ \A i, j \in 1..Len(res) : i < j => ~ScoreLess(res[i].score, res[j].score)
            /\ \A c \in (0..(n - 1)) \ Returned : \A i \in 1..Len(res) :
                 ~ScoreLess(res[i].score, Cosine(rt.query_vec, rt.doc_vecs[c + 1]))
            /\ rt.top_k > n => Returned = 0..(n - 1)

\* a finished retrieval that had to cut: three chunks with three different
\* scores, top_k = 2
C6_Witness ==
    /\ rt.pc = "done"
    /\ Len(rt.chunks) = 3 /\ rt.top_k = 2 /\ Len(rt.results) = 2
    /\ \A i, j \in 1..3 : i # j => ~ScoreEq(rt.similarities[i], rt.similarities[j])

\* C7: of two chunks with equal scores the one with the smaller chunk index is
\* ranked first, and at the cut-off the smaller index is the one kept.
C7_TieBreakByIndex ==
    rt.pc = "done" =>
        LET n == Len(rt.chunks)
            res == rt.results
        IN  /\ \A i, j \in 1..Len(res) :
                 (i < j /\ ScoreEq(res[i].score, res[j].score))
                    => res[i].chunk_id < res[j].chunk_id
            /\ \A c \in (0..(n - 1)) \ Returned : \A i \in 1..Len(res) :
                 ScoreEq(res[i].score, rt.similarities[c + 1]) => res[i].chunk_id < c

-----------------------------------------------------------------------------
(* RAGEngine.generate_answer, lines 183-207, and ask, app.py lines 126-138 *)

(* The generative output is a sequence of tokens: braces, the comma, the two  *)
(* code-fence markers, a blank, a "mode" member with each of three values, a  *)
(* JSON number and a word of commentary.                                      *)
FenceJson == "[fence]json"     \* three backquotes and the word json
Fence == "[fence]"             \* three backquotes
ModeQa == "'mode':'qa'"
ModeVisualization == "'mode':'visualization'"
ModeOther == "'mode':'table'"
Number == "7"
Word == "Sure"
Members == {ModeQa, ModeVisualization, ModeOther}
Tokens == {"{", "}", ",", FenceJson, Fence, " ", Number, Word} \cup Members

\* s.replace(tok, "")
Replace(s, tok) == SelectSeq(s, LAMBDA t : t # tok)

\* s.strip()
Strip(s) ==
    LET solid == {k \in 1..Len(s) : s[k] \notin Whitespace}
    IN  IF solid = {} THEN <<>>
        ELSE SubSeq(s, CHOOSE k \in solid : \A m \in solid : k <= m,
                       CHOOSE k \in solid : \A m \in solid : k >= m)

\* s.rfind(c): highest 0-based position of c, or -1
RFind(s, c) ==
    LET hits == {k \in 0..(Len(s) - 1) : s[k + 1] = c}
    IN  IF hits = {} THEN -1 ELSE CHOOSE k \in hits : \A m \in hits : k >= m

\* line 187, and app.py line 129
StripFences(s) == Strip(Replace(Replace(s, FenceJson), Fence))

\* lines 187-194: fences removed, then the span from the first { to the last }
Sanitize(raw_text) ==
    LET clean_text == StripFences(raw_text)
        start_idx == Find(clean_text, "{", 0, Len(clean_text))
        end_idx == RFind(clean_text, "}")
    IN  IF start_idx # -1 /\ end_idx # -1
        THEN Slice(clean_text, start_idx, end_idx + 1)
        ELSE clean_text

\* the mode a parsed object ends up with: the last "mode" member wins
ModeOf(members) ==
    IF members = <<>> THEN "none"
    ELSE LET last == members[Len(members)]
         IN  IF last = ModeQa THEN "qa"
             ELSE IF last = ModeVisualization THEN "visualization"
             ELSE "table"

\* json.loads(s): blanks between tokens are skipped; a value is a number or an
\* object of comma-separated members.  ok = FALSE stands for JSONDecodeError.
JsonLoads(s) ==
    LET t == Replace(s, " ")
        n == Len(t)
        inner == IF n >= 2 THEN SubSeq(t, 2, n - 1) ELSE <<>>
        members == SelectSeq(inner, LAMBDA x : x \in Members)
    IN  IF t = <<Number>>
        THEN [ok |-> TRUE, value |-> [kind |-> "number", mode |-> "none"]]
        ELSE IF /\ n >= 2 /\ t[1] = "{" /\ t[n] = "}"
                /\ (inner = <<>> \/ Len(inner) % 2 = 1)
                /\ \A k \in 1..Len(inner) :
                     IF k % 2 = 1 THEN inner[k] \in Members ELSE inner[k] = ","
        THEN [ok |-> TRUE, value |-> [kind |-> "object", mode |-> ModeOf(members)]]
        ELSE [ok |-> FALSE, value |-> [kind |-> "none", mode |-> "none"]]

FallbackMessage == "I found information, but I had trouble formatting it correctly. Here is the raw text: "

\* a fallback that embeds the whole raw text
FallbackAnswer_Untruncated(raw_text) ==
    [kind |-> "object", mode |-> "qa",
     answer |-> <<FallbackMessage>> \o raw_text,
     sources |-> <<>>]

\* lines 203-207: the dict handed to json.dumps
FallbackAnswer(raw_text) ==
    [kind |-> "object", mode |-> "qa",
     answer |-> <<FallbackMessage>> \o Slice(raw_text, 0, FallbackPrefixLen),
     sources |-> <<>>]

\* lines 196-207: what generate_answer returns for a raw text.  verbatim: the
\* returned string is clean_text itself and value is what it denotes;
\* otherwise the string is json.dumps(value).
ReturnFor(raw_text, clean_text) ==
    IF JsonLoads(clean_text).ok
    THEN [verbatim |-> TRUE, text |-> clean_text, value |-> JsonLoads(clean_text).value]
    ELSE [verbatim |-> FALSE, text |-> <<>>, value |-> FallbackAnswer(raw_text)]

\* app.py lines 129-138: fences are removed from the returned string once more
\* (inside the dumped answer too), it is parsed and sent back
AskResponse(ret) ==
    IF ret.verbatim
    THEN LET response_data == JsonLoads(StripFences(ret.text))
         IN  IF response_data.ok
             THEN [status |-> 200, body |-> response_data.value]
             ELSE [status |-> 500, body |-> [kind |-> "error", mode |-> "none"]]
    ELSE [status |-> 200,
          body |-> [ret.value EXCEPT !.answer = Replace(Replace(@, FenceJson), Fence)]]

AnswerInit ==
    /\ ct = ChunkIdle
    /\ rt = RankIdle
    /\ ServerIdle
    /\ \E raw_text \in Seqs(Tokens, MaxRaw) :
          ga = [raw_text |-> raw_text, clean_text |-> <<>>, ret |-> NoReturn,
                response |-> NoResponse, pc |-> "generated"]

\* lines 184-194
AnswerSanitize ==
    /\ ga.pc = "generated"
    /\ ga' = [ga EXCEPT !.clean_text = Sanitize(ga.raw_text), !.pc = "parse"]
    /\ UNCHANGED <<ct, rt, store, wk, served>>

\* lines 196-198
AnswerReturnClean ==
    /\ ga.pc = "parse"
    /\ JsonLoads(ga.clean_text).ok
    /\ ga' = [ga EXCEPT !.ret = ReturnFor(ga.raw_text, ga.clean_text), !.pc = "returned"]
    /\ UNCHANGED <<ct, rt, store, wk, served>>

\* lines 200-207
AnswerReturnFallback ==
    /\ ga.pc = "parse"
    /\ ~JsonLoads(ga.clean_text).ok
    /\ ga' = [ga EXCEPT !.ret = ReturnFor(ga.raw_text, ga.clean_text), !.pc = "returned"]
    /\ UNCHANGED <<ct, rt, store, wk, served>>

\* app.py lines 126-138
AnswerRespond ==
    /\ ga.pc = "returned"
    /\ ga' = [ga EXCEPT !.response = AskResponse(ga.ret), !.pc = "responded"]
    /\ UNCHANGED <<ct, rt, store, wk, served>>

AnswerNext == AnswerSanitize \/ AnswerReturnClean \/ AnswerReturnFallback \/ AnswerRespond

SpecAnswer == AnswerInit /\ [][AnswerNext]_vars

-----------------------------------------------------------------------------
(* Claims about generate_answer, under SpecAnswer *)

WellFormed(v) == v.kind = "object" /\ v.mode \in {"qa", "visualization"}

\* C1: whatever the raw text, generate_answer returns, and /ask sends back, a
\* JSON object whose mode is "qa" or "visualization"; JSON without such a mode,
\* or that is no object, is converted to the qa variant instead of passed through.
C1_AlwaysWellFormed ==
    /\ ga.pc \in {"returned", "responded"} => WellFormed(ga.ret.value)
    /\ ga.pc = "responded" => (ga.response.status = 200 /\ WellFormed(ga.response.body))

-----------------------------------------------------------------------------
(* The engine and the /ask handler under concurrent requests *)

Primary == "models/text-embedding-004"
Secondary == "models/embedding-001"
Models == {Primary, Secondary}

HasLetter(s) == IF \E k \in 1..Len(s) : s[k] \notin Whitespace THEN 1 ELSE 0
HasBlank(s) == IF \E k \in 1..Len(s) : s[k] \in Whitespace THEN 1 ELSE 0

\* genai.embed_content for one text, when it succeeds.  The service is outside
\* the repository: it stands here as some fixed vector per model and text.
EmbedOne(model, s) ==
    IF model = Primary THEN <<HasLetter(s), HasBlank(s)>> ELSE <<HasBlank(s), HasLetter(s)>>

\* genai.embed_content for a list of texts: one vector per text
EmbedBatch(model, texts) == [i \in 1..Len(texts) |-> EmbedOne(model, texts[i])]

\* the dict self.store, as the sequence of its items in insertion order
Keys(st) == [i \in 1..Len(st) |-> st[i].id]
Has(st, id) == \E i \in 1..Len(st) : st[i].id = id
Get(st, id) == st[CHOOSE i \in 1..Len(st) : st[i].id = id].doc

\* self.store[doc_id] = doc: a key already present keeps its place
Put(st, id, doc) ==
    IF Has(st, id)
    THEN [i \in 1..Len(st) |-> IF st[i].id = id THEN [id |-> id, doc |-> doc] ELSE st[i]]
    ELSE Append(st, [id |-> id, doc |-> doc])

\* app.py line 113: list(store.keys())[-1] if store else None (0 stands for None)
LastKey(st) == IF st # <<>> THEN st[Len(st)].id ELSE 0

\* lines 63-66: no chunks raises ValueError, else the chunks are embedded
AfterChunking(chunks) == IF chunks = <<>> THEN "raised" ELSE "embed_primary"

\* a primary failure that propagates without the second model being tried
AfterEmbed_NoFallback(stage, ok, op) ==
    IF ok THEN (IF op = "ingest" THEN "store" ELSE "rank") ELSE "raised"

\* a failure of the second model that is swallowed
AfterEmbed_Swallowed(stage, ok, op) ==
    IF ok \/ stage = "embed_fallback"
    THEN (IF op = "ingest" THEN "store" ELSE "rank")
    ELSE "embed_fallback"

\* lines 40-57 and 84-95: where control goes after an embedding call.  A
\* failure of the first call enters the except block, a failure inside the
\* except block leaves the function as an exception.
AfterEmbed(stage, ok, op) ==
    IF ok THEN (IF op = "ingest" THEN "store" ELSE "rank")
    ELSE IF stage = "embed_primary" THEN "embed_fallback"
    ELSE "raised"

\* app.py line 113: the document /ask answers from; the request's own doc_id is not read
AskDocId(st, supplied) == LastKey(st)

NoInfoAnswer ==
    [kind |-> "object", mode |-> "qa",
     answer |-> <<"I could not find any relevant information in the document to answer that.">>,
     sources |-> <<>>]

DocIds == {1, 2}
DocTexts == {<<" ">>, <<"a", "a", "\n", "a", "a", "a">>}
Questions == {<<>>, <<"a">>}
RawSamples == {<<"{", ModeQa, "}">>, <<Word, "{">>}

Init ==
    /\ ct = ChunkIdle
    /\ rt = RankIdle
    /\ ga = AnswerIdle
    /\ ServerIdle

\* process_document, lines 59-64
ProcessDocument(w, doc_id, full_text) ==
    /\ wk[w].pc = "idle"
    /\ served < MaxRequests
    /\ served' = served + 1
    /\ LET chunks == chunk_text(full_text, DefaultChunkSize, DefaultOverlap)
       IN  wk' = [wk EXCEPT ![w] = [IdleFrame EXCEPT
                    !.op = "ingest", !.doc_id = doc_id, !.full_text = full_text,
                    !.chunks = chunks, !.pc = AfterChunking(chunks)]]
    /\ UNCHANGED <<ct, rt, ga, store>>

\* what the frame hands to embed_content: the chunks, or the query
EmbedContent(f) == IF f.op = "ingest" THEN f.chunks ELSE f.question

EmbedCall(w, stage, model, ok) ==
    /\ wk[w].pc = stage
    /\ LET f == wk[w]
           call == [model |-> model, content |-> EmbedContent(f), ok |-> ok]
       IN  wk' = [wk EXCEPT ![w] = [f EXCEPT
                    !.calls = Append(@, call),
                    !.embeddings = IF ok /\ f.op = "ingest"
                                   THEN EmbedBatch(model, f.chunks) ELSE @,
                    !.query_embedding = IF ok /\ f.op = "ask"
                                        THEN EmbedOne(model, f.question) ELSE @,
                    !.pc = AfterEmbed(stage, ok, f.op)]]
    /\ UNCHANGED <<ct, rt, ga, store, served>>

\* lines 40-47 (create_embeddings) and 84-89 (retrieve)
EmbedPrimary(w, ok) == EmbedCall(w, "embed_primary", Primary, ok)

\* lines 48-57 and 90-95
EmbedFallback(w, ok) == EmbedCall(w, "embed_fallback", Secondary, ok)

\* lines 68-73
StoreDocument(w) ==
    /\ wk[w].pc = "store"
    /\ store' = Put(store, wk[w].doc_id,
                    [chunks |-> wk[w].chunks, embeddings |-> wk[w].embeddings,
                     full_text |-> wk[w].full_text])
    /\ wk' = [wk EXCEPT ![w].pc = "returned"]
    /\ UNCHANGED <<ct, rt, ga, served>>

\* app.py lines 107-119.  supplied is the doc_id of the request's JSON (0: none sent).
Ask(w, question, supplied) ==
    /\ wk[w].pc = "idle"
    /\ served < MaxRequests
    /\ served' = served + 1
    /\ LET doc_id == AskDocId(store, supplied)
           f == [IdleFrame EXCEPT !.op = "ask", !.question = question,
                                  !.supplied = supplied, !.keys_seen = Keys(store)]
       IN  wk' = [wk EXCEPT ![w] =
                IF question = <<>>
                THEN [f EXCEPT !.pc = "responded",
                               !.response = [status |-> 400,
                                             body |-> [kind |-> "missing_question", mode |-> "none"]]]
                ELSE IF doc_id = 0
                THEN [f EXCEPT !.pc = "responded",
                               !.response = [status |-> 200,
                                             body |-> [kind |-> "upload_first", mode |-> "none"]]]
                ELSE [f EXCEPT !.pc = "retrieve", !.doc_id = doc_id]]
    /\ UNCHANGED <<ct, rt, ga, store>>

\* lines 77-82
Retrieve(w) ==
    /\ wk[w].pc = "retrieve"
    /\ wk' = [wk EXCEPT ![w] =
            IF ~Has(store, wk[w].doc_id)
            THEN [@ EXCEPT !.pc = "raised"]
            ELSE [@ EXCEPT !.doc_data = Get(store, wk[w].doc_id),
                           !.pc = IF Len(Get(store, wk[w].doc_id).chunks) = 0
                                  THEN "compose" ELSE "embed_primary"]]
    /\ UNCHANGED <<ct, rt, ga, store, served>>

\* lines 97-112
RankChunks(w) ==
    /\ wk[w].pc = "rank"
    /\ \E results \in Rank(wk[w].doc_data.chunks, wk[w].doc_data.embeddings,
                           wk[w].query_embedding, DefaultTopK) :
          wk' = [wk EXCEPT ![w].results = results, ![w].pc = "compose"]
    /\ UNCHANGED <<ct, rt, ga, store, served>>

\* lines 118-207 and app.py lines 126-133: the answer for the retrieved chunks
\* (raw_text is what the generative model returns), parsed and sent back
Compose(w, raw_text) ==
    /\ wk[w].pc = "compose"
    /\ LET ret == IF wk[w].results = <<>>
                  THEN [verbatim |-> FALSE, text |-> <<>>, value |-> NoInfoAnswer]
                  ELSE ReturnFor(raw_text, Sanitize(raw_text))
       IN  wk' = [wk EXCEPT ![w].generated = (wk[w].results # <<>>),
                            ![w].ret = ret,
                            ![w].response = AskResponse(ret),
                            ![w].pc = "responded"]
    /\ UNCHANGED <<ct, rt, ga, store, served>>

\* line 181 raising
ComposeFails(w) ==
    /\ wk[w].pc = "compose"
    /\ wk[w].results # <<>>
    /\ wk' = [wk EXCEPT ![w].generated = TRUE, ![w].pc = "raised"]
    /\ UNCHANGED <<ct, rt, ga, store, served>>

\* app.py lines 135-138
AskFails(w) ==
    /\ wk[w].pc = "raised"
    /\ wk[w].op = "ask"
    /\ wk' = [wk EXCEPT ![w].response = [status |-> 500,
                                         body |-> [kind |-> "error", mode |-> "none"]],
                        ![w].pc = "responded"]
    /\ UNCHANGED <<ct, rt, ga, store, served>>

\* the request is over and the thread takes the next one
Finish(w) ==
    /\ \/ wk[w].pc \in {"returned", "responded"}
       \/ wk[w].pc = "raised" /\ wk[w].op = "ingest"
    /\ wk' = [wk EXCEPT ![w] = IdleFrame]
    /\ UNCHANGED <<ct, rt, ga, store, served>>

Next ==
    \/ \E w \in Threads, doc_id \in DocIds, full_text \in DocTexts :
          ProcessDocument(w, doc_id, full_text)
    \/ \E w \in Threads, ok \in BOOLEAN : EmbedPrimary(w, ok)
    \/ \E w \in Threads, ok \in BOOLEAN : EmbedFallback(w, ok)
    \/ \E w \in Threads : StoreDocument(w)
    \/ \E w \in Threads, question \in Questions, supplied \in {0} \cup DocIds :
          Ask(w, question, supplied)
    \/ \E w \in Threads : Retrieve(w)
    \/ \E w \in Threads : RankChunks(w)
    \/ \E w \in Threads, raw_text \in RawSamples : Compose(w, raw_text)
    \/ \E w \in Threads : ComposeFails(w)
    \/ \E w \in Threads : AskFails(w)
    \/ \E w \in Threads : Finish(w)

Spec == Init /\ [][Next]_vars

-----------------------------------------------------------------------------
(* Claims about the engine under concurrent requests, under Spec *)

\* a Document as one single ingestion builds it: the chunks of its text, and
\* one embedding per chunk, all from one model
CompleteDocument(doc) ==
    /\ doc.chunks = chunk_text(doc.full_text, DefaultChunkSize, DefaultOverlap)
    /\ doc.chunks # <<>>
    /\ Len(doc.embeddings) = Len(doc.chunks)
    /\ \E model \in Models : doc.embeddings = EmbedBatch(model, doc.chunks)

CompleteStore ==
    /\ \A i \in 1..Len(store) : CompleteDocument(store[i].doc)
    /\ \A i, j \in 1..Len(store) : i # j => store[i].id # store[j].id

\* a step that changes the store is the last step of an ingestion whose
\* chunking gave chunks and whose embedding succeeded, and it puts that
\* ingestion's document under that ingestion's id, leaving the others alone
WriteOnlyOnSuccess ==
    store' # store =>
        \E w \in Threads :
            /\ wk[w].op = "ingest" /\ wk[w].pc = "store" /\ wk'[w].pc = "returned"
            /\ wk[w].chunks # <<>>
            /\ wk[w].calls # <<>> /\ wk[w].calls[Len(wk[w].calls)].ok
            /\ Has(store', wk[w].doc_id)
            /\ Get(store', wk[w].doc_id) =
                 [chunks |-> wk[w].chunks, embeddings |-> wk[w].embeddings,
                  full_text |-> wk[w].full_text]
            /\ \A i \in 1..Len(store) :
                 store[i].id # wk[w].doc_id => store'[i] = store[i]

\* the step in which an ingestion fails (no chunks, or both embedding calls
\* failed), and the step that ends a failed ingestion, leave the store as it was
FailedWritesNothing ==
    \A w \in Threads :
        (/\ wk'[w] # wk[w]
         /\ \/ wk'[w].op = "ingest" /\ wk'[w].pc = "raised"
            \/ wk[w].op = "ingest" /\ wk[w].pc = "raised")
            => store' = store

\* C8: every entry of the store is always a complete Document of one single
\* ingestion, the store is written only by an ingestion whose chunking and
\* embedding both succeeded, and a failed ingestion leaves the store as it was.
C8_NoPartialDocument ==
    /\ []CompleteStore
    /\ [][WriteOnlyOnSuccess /\ FailedWritesNothing]_vars

\* an ingestion has failed after both embedding calls failed, another has
\* failed for having no chunks, and the store holds a document
C8_Witness ==
    /\ store # <<>>
    /\ \E w, v \in Threads :
         /\ wk[w].op = "ingest" /\ wk[w].pc = "raised" /\ Len(wk[w].calls) = 2
         /\ wk[v].op = "ingest" /\ wk[v].pc = "raised" /\ wk[v].chunks = <<>>

\* the embedding stage of a frame is over and has handed on a result
Embedded(f) == f.pc \in {"store", "returned", "rank", "compose"} /\ f.calls # <<>>

\* C9: the first embedding call goes to the primary model with the whole batch;
\* after a primary failure the same batch goes once to the secondary model;
\* a result handed on is the vectors of the call that succeeded, one per input
\* text; the stage fails only when both calls failed, and then hands on nothing.
C9_EmbeddingFallback ==
    \A w \in Threads :
        LET f == wk[w]
            c == f.calls
        IN  /\ Len(c) <= 2
            /\ Len(c) >= 1 => (c[1].model = Primary /\ c[1].content = EmbedContent(f))
            /\ Len(c) = 2 => (/\ ~c[1].ok
                              /\ c[2].model = Secondary
                              /\ c[2].content = c[1].content)
            /\ (Len(c) = 1 /\ ~c[1].ok) => f.pc = "embed_fallback"
            /\ (Len(c) = 2 /\ ~c[2].ok) =>
                  (/\ f.pc = "raised" \/ (f.pc = "responded" /\ f.response.status = 500)
                   /\ f.embeddings = <<>> /\ f.query_embedding = <<>>)
            /\ (f.pc = "raised" /\ c # <<>> /\ ~f.generated) => (Len(c) = 2 /\ ~c[2].ok)
            /\ Embedded(f) =>
                  (/\ c[Len(c)].ok
                   /\ f.op = "ingest" =>
                        (/\ Len(f.embeddings) = Len(f.chunks)
                         /\ f.embeddings = EmbedBatch(c[Len(c)].model, f.chunks))
                   /\ f.op = "ask" =>
                        f.query_embedding = EmbedOne(c[Len(c)].model, f.question))

\* an ingestion of several chunks got its embeddings from the secondary model
\* after the primary one failed
C9_Witness ==
    \E w \in Threads :
        /\ wk[w].op = "ingest" /\ wk[w].pc = "store"
        /\ Len(wk[w].chunks) >= 2
        /\ Len(wk[w].calls) = 2 /\ wk[w].calls[2].ok
        /\ Len(wk[w].embeddings) = Len(wk[w].chunks)

InSeq(x, s) == \E i \in 1..Len(s) : s[i] = x

\* C10: a request that names a stored document is answered from it; the last
\* inserted identifier is used when none is named; with an empty store the
\* request ends with the message, without an embedding or generative call.
C10_AnswersFromSuppliedDocument ==
    \A w \in Threads :
        LET f == wk[w]
        IN  (f.op = "ask" /\ f.question # <<>>) =>
              /\ (f.supplied # 0 /\ InSeq(f.supplied, f.keys_seen)) => f.doc_id = f.supplied
              /\ (f.supplied = 0 /\ f.keys_seen # <<>>) =>
                    f.doc_id = f.keys_seen[Len(f.keys_seen)]
              /\ f.keys_seen = <<>> =>
                    (/\ f.pc = "responded"
                     /\ f.response = [status |-> 200,
                                      body |-> [kind |-> "upload_first", mode |-> "none"]]
                     /\ f.calls = <<>> /\ ~f.generated)

=============================================================================
